---- MODULE Spec2Model ----
(***************************************************************************)
(* A model of go-asset-helper (package asset, src/asset.go): the manifest  *)
(* mapping (createMapping, StaticMap.Get), the attribute merger            *)
(* (attrSliceToMap, updateMap, mapToAttrs) and the facade (NewStatic,      *)
(* ScriptTag, LinkTag, Static), called one at a time and by concurrent    *)
(* callers, and the subresource integrity option its tests use.            *)
(*                                                                         *)
(* A Go string is a sequence of one-character strings, so that suffixes,   *)
(* concatenation, escaping and bytewise comparison are computed.           *)
(***************************************************************************)
EXTENDS Integers, Sequences, FiniteSets, TLC

VARIABLES
    static,     \* the *Static that NewStatic returned, or Nil
    mapping,    \* the StaticMapper a direct createMapping call returned (nil before)
    op,         \* the last operation called ("none" before the first)
    args,       \* its arguments
    ret,        \* the value it returned (Nil when it returned none)
    err,        \* its error: "nil", an error kind, or "panic"
    calls       \* the calls that concurrent callers have in progress on the
                \* facade, each with its arguments, locals and position

vars == <<static, mapping, op, args, ret, err, calls>>

Nil == [nil |-> TRUE]

(***************************************************************************)
(* Bounds of the model.                                                    *)
(***************************************************************************)
\* the largest number of entries of a manifest object
MaxEntries == 3
\* the largest length of an attribute list passed to ScriptTag / LinkTag
MaxAttrs == 4
\* the largest number of options passed to NewStatic
MaxOptions == 2
\* the number of concurrent callers of one facade
MaxCallers == 2

(***************************************************************************)
(* Strings.                                                                *)
(***************************************************************************)
\* the characters the model uses, in increasing byte order (ASCII)
AsciiOrder ==
    <<" ", "\"", "#", "&", "'", "-", ".", "/", "3", "4", "9", ";", "<", "=", ">",
      "a", "b", "c", "d", "e", "f", "g", "h", "i", "j", "k", "l", "m", "n",
      "o", "p", "q", "r", "s", "t", "u", "v", "w", "x", "y", "z">>

\* the rank of every character in byte order
Rank == [c \in { AsciiOrder[i] : i \in 1..Len(AsciiOrder) } |->
            CHOOSE i \in 1..Len(AsciiOrder) : AsciiOrder[i] = c]

Ord(c) == Rank[c]

\* Go's s < t on strings, bytewise lexicographic, from position i on
RECURSIVE StrLessFrom(_, _, _)
StrLessFrom(s, t, i) ==
    IF i > Len(t) THEN FALSE
    ELSE IF i > Len(s) THEN TRUE
    ELSE IF s[i] = t[i] THEN StrLessFrom(s, t, i + 1)
    ELSE Ord(s[i]) < Ord(t[i])

StrLess(s, t) == StrLessFrom(s, t, 1)

\* strings.HasSuffix
HasSuffix(s, suffix) ==
    /\ Len(s) >= Len(suffix)
    /\ SubSeq(s, Len(s) - Len(suffix) + 1, Len(s)) = suffix

\* strings.TrimSuffix
TrimSuffix(s, suffix) ==
    IF HasSuffix(s, suffix) THEN SubSeq(s, 1, Len(s) - Len(suffix)) ELSE s

\* filepath.Ext: the suffix beginning at the final dot of the final element
\* of the path, empty if that element has no dot
RECURSIVE ExtFrom(_, _)
ExtFrom(path, i) ==
    IF i < 1 \/ path[i] = "/" THEN <<>>
    ELSE IF path[i] = "." THEN SubSeq(path, i, Len(path))
    ELSE ExtFrom(path, i - 1)

Ext(path) == ExtFrom(path, Len(path))

\* toMinifiedName: ".min" inserted before the extension
toMinifiedName(name) ==
    LET ext == Ext(name) IN TrimSuffix(name, ext) \o <<".", "m", "i", "n">> \o ext

(***************************************************************************)
(* Manifest values and the mapping.                                        *)
(***************************************************************************)
\* a decoded JSON value under a manifest key: a string, or anything else
JsonString(s) == [t |-> "string", s |-> s]
JsonOther == [t |-> "other"]

\* getStringFromMap: (the string at the key, true), or (the key, false)
getStringFromMap(amap, defaultValue) ==
    IF defaultValue \in DOMAIN amap
    THEN IF amap[defaultValue].t = "string"
         THEN [value |-> amap[defaultValue].s, ok |-> TRUE]
         ELSE [value |-> defaultValue, ok |-> FALSE]
    ELSE [value |-> defaultValue, ok |-> FALSE]

\* a StaticMap value, and the nil StaticMapper
StaticMap(innerMap, useMinified) ==
    [kind |-> "StaticMap", innerMap |-> innerMap, useMinified |-> useMinified]
NilMapper == [kind |-> "nil"]

\* a mutant of Get: the minified key is tried whatever the flag
GetAlwaysMinified(sm, name) ==
    LET viaMin == getStringFromMap(sm.innerMap, toMinifiedName(name)) IN
    IF viaMin.ok THEN viaMin.value ELSE getStringFromMap(sm.innerMap, name).value

\* a mutant of Get: a non-string value at the minified key ends the lookup
GetNoFallback(sm, name) ==
    LET minifiedName == toMinifiedName(name)
        viaMin == getStringFromMap(sm.innerMap, minifiedName) IN
    IF sm.useMinified /\ minifiedName \in DOMAIN sm.innerMap
    THEN (IF viaMin.ok THEN viaMin.value ELSE name)
    ELSE getStringFromMap(sm.innerMap, name).value

\* a mutant of Get: the flag is read the wrong way round
GetFlagInverted(sm, name) ==
    LET viaMin == getStringFromMap(sm.innerMap, toMinifiedName(name)) IN
    IF ~sm.useMinified /\ viaMin.ok
    THEN viaMin.value
    ELSE getStringFromMap(sm.innerMap, name).value

\* StaticMap.Get
Get(sm, name) ==
    LET viaMin == getStringFromMap(sm.innerMap, toMinifiedName(name)) IN
    IF sm.useMinified /\ viaMin.ok
    THEN viaMin.value
    ELSE getStringFromMap(sm.innerMap, name).value

(***************************************************************************)
(* Manifest bytes, loaders and createMapping.                              *)
(***************************************************************************)
\* manifest bytes, by what json.Unmarshal makes of them: not JSON at all,
\* a JSON value that is no object, or a JSON object
InvalidJson == [json |-> "invalid"]
NonObjectKinds == {"array", "string", "number", "null"}
NonObjectJson(k) == [json |-> k]
ObjectJson(o) == [json |-> "object", object |-> o]

\* json.Unmarshal into an interface{}: an error for bytes that are not JSON,
\* otherwise the decoded value, whatever its JSON type
Unmarshal(content) ==
    IF content.json = "invalid"
    THEN [err |-> "json error", value |-> Nil]
    ELSE [err |-> "nil", value |-> content]

\* a Loader: nil, one that fails, one that returns given bytes, or
\* ioutil.ReadFile (the default of NewStatic), which reads the file system
NilLoader == [kind |-> "nil"]
FailingLoader == [kind |-> "fails"]
ContentLoader(content) == [kind |-> "returns", content |-> content]
ReadFile == [kind |-> "ReadFile"]

\* the file at the manifest path: missing, or its bytes
NoFile == [json |-> "no file"]

\* load(path)
Load(load, file) ==
    CASE load.kind = "fails" -> [err |-> "loader error", content |-> Nil]
      [] load.kind = "returns" -> [err |-> "nil", content |-> load.content]
      [] load.kind = "ReadFile" ->
            IF file = NoFile
            THEN [err |-> "loader error", content |-> Nil]
            ELSE [err |-> "nil", content |-> file]

\* a mutant of createMapping: the loader is called without the nil check
createMappingNoNilCheck(load, file, useMinified) ==
    IF load = NilLoader THEN [mapper |-> NilMapper, err |-> "panic"]
    ELSE LET loaded == Load(load, file)
             parsed == Unmarshal(loaded.content) IN
         IF loaded.err # "nil" THEN [mapper |-> NilMapper, err |-> loaded.err]
         ELSE IF parsed.err # "nil" THEN [mapper |-> NilMapper, err |-> parsed.err]
         ELSE IF parsed.value.json # "object" THEN [mapper |-> NilMapper, err |-> "panic"]
         ELSE [mapper |-> StaticMap(parsed.value.object, useMinified), err |-> "nil"]

\* createMapping: (mapper, err); err is "panic" when the unchecked type
\* assertion manifest.(map[string]interface{}) meets a value that is no object
createMapping(load, file, useMinified) ==
    IF load # NilLoader
    THEN LET loaded == Load(load, file)
             parsed == Unmarshal(loaded.content) IN
         IF loaded.err # "nil" THEN [mapper |-> NilMapper, err |-> loaded.err]
         ELSE IF parsed.err # "nil" THEN [mapper |-> NilMapper, err |-> parsed.err]
         ELSE IF parsed.value.json # "object" THEN [mapper |-> NilMapper, err |-> "panic"]
         ELSE [mapper |-> StaticMap(parsed.value.object, useMinified), err |-> "nil"]
    ELSE [mapper |-> StaticMap(<<>>, useMinified), err |-> "nil"]

(***************************************************************************)
(* Inputs of the mapping operations.                                       *)
(***************************************************************************)
\* logical asset names: with an extension, and with a dot in the directory only
Names == { <<"a", ".", "j", "s">>, <<"c", ".", "d", "/", "b">> }

\* the keys a manifest may hold: the names and their minified variants
Keys == Names \cup { toMinifiedName(n) : n \in Names }

\* the values a manifest may hold under a key
JsonValues == { JsonString(<<"x">>), JsonString(<<"y">>), JsonOther }

\* the manifest objects of at most MaxEntries entries
Objects ==
    UNION { [D -> JsonValues] : D \in { S \in SUBSET Keys : Cardinality(S) <= MaxEntries } }

\* manifest bytes
Contents ==
    {InvalidJson} \cup { NonObjectJson(k) : k \in NonObjectKinds }
                  \cup { ObjectJson(o) : o \in Objects }

\* the loaders passed to createMapping
Loaders == {NilLoader, FailingLoader} \cup { ContentLoader(c) : c \in Contents }

(***************************************************************************)
(* The mapping operations, called directly (as the tests do).              *)
(***************************************************************************)
InitMapping ==
    /\ static = Nil
    /\ mapping = NilMapper
    /\ op = "none"
    /\ args = Nil
    /\ ret = Nil
    /\ err = "nil"
    /\ calls = <<>>

\* mapping, err := createMapping(load, path, useMinified)
CreateMappingCall(load, useMinified) ==
    /\ op = "none"
    /\ LET r == createMapping(load, NoFile, useMinified) IN
        /\ mapping' = r.mapper
        /\ err' = r.err
        /\ ret' = r.mapper
    /\ op' = "createMapping"
    /\ args' = [load |-> load, useMinified |-> useMinified]
    /\ UNCHANGED <<static, calls>>

\* mapping.Get(name), on a mapping that createMapping returned
GetCall(name) ==
    /\ mapping.kind = "StaticMap"
    /\ ret' = Get(mapping, name)
    /\ err' = "nil"
    /\ op' = "Get"
    /\ args' = [name |-> name]
    /\ UNCHANGED <<static, mapping, calls>>

NextMapping ==
    \/ op = "none" /\ \E load \in Loaders, useMinified \in BOOLEAN :
                        CreateMappingCall(load, useMinified)
    \/ \E name \in Keys : GetCall(name)

SpecMapping == InitMapping /\ [][NextMapping]_vars

(***************************************************************************)
(* The attribute merger.                                                   *)
(***************************************************************************)
\* m[k] = v on a Go map
Put(m, k, v) == [x \in DOMAIN m \cup {k} |-> IF x = k THEN v ELSE m[x]]

\* the loop of attrSliceToMap, at (1-based) position i
RECURSIVE attrLoop(_, _, _)
attrLoop(attrsSlice, i, attrMap) ==
    IF i > Len(attrsSlice) THEN attrMap
    ELSE attrLoop(attrsSlice, i + 2, Put(attrMap, attrsSlice[i], attrsSlice[i + 1]))

\* a mutant of attrSliceToMap: the length is not checked, and a last name
\* without a value is dropped
attrSliceToMapUnchecked(attrsSlice) ==
    [attrMap |-> attrLoop(SubSeq(attrsSlice, 1, 2 * (Len(attrsSlice) \div 2)), 1, <<>>),
     err |-> "nil"]

\* a mutant of attrSliceToMap: the loop ends at half the length
attrSliceToMapHalfLoop(attrsSlice) ==
    IF Len(attrsSlice) % 2 # 0
    THEN [attrMap |-> Nil, err |-> "attrs error"]
    ELSE [attrMap |-> attrLoop(SubSeq(attrsSlice, 1, 2 * ((Len(attrsSlice) + 2) \div 4)), 1, <<>>),
          err |-> "nil"]

\* attrSliceToMap: (attrMap, err)
attrSliceToMap(attrsSlice) ==
    IF Len(attrsSlice) % 2 # 0
    THEN [attrMap |-> Nil, err |-> "attrs error"]
    ELSE [attrMap |-> attrLoop(attrsSlice, 1, <<>>), err |-> "nil"]

\* a mutant of updateMap: an entry that is already there is kept
updateMapKeep(updated, updating) ==
    [k \in DOMAIN updated \cup DOMAIN updating |->
        IF k \in DOMAIN updated THEN updated[k] ELSE updating[k]]

\* updateMap: every entry of updating is assigned into updated (the keys of
\* a map are distinct, so the order of the range does not matter); the map
\* updated after the call
updateMap(updated, updating) ==
    [k \in DOMAIN updated \cup DOMAIN updating |->
        IF k \in DOMAIN updating THEN updating[k] ELSE updated[k]]

\* html.EscapeString, one character
EscapeChar(c) ==
    CASE c = "&" -> <<"&", "a", "m", "p", ";">>
      [] c = "'" -> <<"&", "#", "3", "9", ";">>
      [] c = "<" -> <<"&", "l", "t", ";">>
      [] c = ">" -> <<"&", "g", "t", ";">>
      [] c = "\"" -> <<"&", "#", "3", "4", ";">>
      [] OTHER -> <<c>>

\* html.EscapeString, from position i on
RECURSIVE EscapeFrom(_, _)
EscapeFrom(s, i) ==
    IF i > Len(s) THEN <<>> ELSE EscapeChar(s[i]) \o EscapeFrom(s, i + 1)

\* html.EscapeString
EscapeString(s) == EscapeFrom(s, 1)

\* fmt.Sprintf(`%s="%s"`, html.EscapeString(key), html.EscapeString(value))
FormatAttr(key, value) ==
    EscapeString(key) \o <<"=", "\"">> \o EscapeString(value) \o <<"\"">>

\* a string inserted into a sorted slice, after the strings less than it
Insert(x, sorted) ==
    LET k == Cardinality({ i \in 1..Len(sorted) : StrLess(sorted[i], x) })
    IN  SubSeq(sorted, 1, k) \o <<x>> \o SubSeq(sorted, k + 1, Len(sorted))

\* the first n strings of a slice, sorted
RECURSIVE SortPrefix(_, _)
SortPrefix(slice, n) ==
    IF n = 0 THEN <<>> ELSE Insert(slice[n], SortPrefix(slice, n - 1))

\* sort.StringSlice(slice).Sort(): the slice in increasing order
SortStrings(slice) == SortPrefix(slice, Len(slice))

\* strings.Join, from position i on
RECURSIVE JoinFrom(_, _, _)
JoinFrom(slice, sep, i) ==
    IF i > Len(slice) THEN <<>>
    ELSE IF i = Len(slice) THEN slice[i]
    ELSE slice[i] \o sep \o JoinFrom(slice, sep, i + 1)

\* strings.Join
Join(slice, sep) == JoinFrom(slice, sep, 1)

\* a mutant of mapToAttrs: the slice is not sorted
mapToAttrsUnsorted(attrMap, order) ==
    Join([i \in 1..Len(order) |-> FormatAttr(order[i], attrMap[order[i]])], <<" ">>)

\* mapToAttrs; order is the order in which range yields the keys of attrMap,
\* which Go leaves unspecified
mapToAttrs(attrMap, order) ==
    Join(SortStrings([i \in 1..Len(order) |-> FormatAttr(order[i], attrMap[order[i]])]),
         <<" ">>)

\* the keys of a map, in one order
RECURSIVE KeySeq(_)
KeySeq(keys) ==
    IF keys = {} THEN <<>>
    ELSE LET k == CHOOSE x \in keys : TRUE IN <<k>> \o KeySeq(keys \ {k})

\* the permutations of 1..n, for the sizes an attribute map can have: the
\* defaults, the URL attribute and the caller's pairs
MaxKeys == 3 + (MaxAttrs \div 2)
Permutations1 ==
    [n \in 0..MaxKeys |-> { p \in [1..n -> 1..n] : \A i, j \in 1..n : p[i] = p[j] => i = j }]

\* the orders in which range may yield the keys of a map: all of them
RangeOrders(keys) ==
    LET ks == KeySeq(keys)
        n == Len(ks)
    IN  { [i \in 1..n |-> ks[p[i]]] : p \in Permutations1[n] }

(***************************************************************************)
(* The facade: Static, NewStatic and its options.                          *)
(***************************************************************************)
\* a MappingBuilder: nil, the closure NewStatic installs (createMapping on
\* the loader and flag of the Static), or a caller's function returning a
\* given (mapper, err)
NilBuilder == [kind |-> "nil"]
DefaultBuilder == [kind |-> "createMapping"]
CustomBuilder(mapper, e) == [kind |-> "returns", mapper |-> mapper, err |-> e]

\* the options of NewStatic
WithManifestLoader(load) == [option |-> "WithManifestLoader", load |-> load]
WithMappingBuilder(builder) == [option |-> "WithMappingBuilder", builder |-> builder]
WithUseMinified(minified) == [option |-> "WithUseMinified", minified |-> minified]

\* optionSetter(static)
ApplyOption(st, o) ==
    CASE o.option = "WithManifestLoader" -> [st EXCEPT !.manifestLoader = o.load]
      [] o.option = "WithMappingBuilder" -> [st EXCEPT !.mappingBuilder = o.builder]
      [] o.option = "WithUseMinified" -> [st EXCEPT !.useMinified = o.minified]

\* a mutant of ApplyOptions: the options are applied last to first
RECURSIVE ApplyOptionsReversed(_, _)
ApplyOptionsReversed(st, options) ==
    IF options = <<>> THEN st
    ELSE ApplyOption(ApplyOptionsReversed(st, Tail(options)), Head(options))

\* for _, optionSetter := range options { optionSetter(static) }
RECURSIVE ApplyOptions(_, _)
ApplyOptions(st, options) ==
    IF options = <<>> THEN st
    ELSE ApplyOptions(ApplyOption(st, Head(options)), Tail(options))

\* static.mappingBuilder()
RunBuilder(st, file) ==
    IF st.mappingBuilder.kind = "createMapping"
    THEN createMapping(st.manifestLoader, file, st.useMinified)
    ELSE [mapper |-> st.mappingBuilder.mapper, err |-> st.mappingBuilder.err]

\* a mutant of NormalizePrefix: a separator is appended always
NormalizePrefixAlways(urlPrefix) == urlPrefix \o <<"/">>

\* if !strings.HasSuffix(urlPrefix, "/") { urlPrefix += "/" }
NormalizePrefix(urlPrefix) ==
    IF ~HasSuffix(urlPrefix, <<"/">>) THEN urlPrefix \o <<"/">> ELSE urlPrefix

\* NewStatic: (static, err); file is the file at manifestPath, read if the
\* loader is ioutil.ReadFile. A panic of the builder leaves NewStatic by
\* panicking: there is no result, and err is "panic"
NewStatic(urlPrefix, manifestPath, options, file) ==
    LET initial == [urlPrefix |-> NormalizePrefix(urlPrefix),
                    manifestPath |-> manifestPath,
                    manifestLoader |-> ReadFile,
                    useMinified |-> FALSE,
                    mapping |-> NilMapper,
                    mappingBuilder |-> NilBuilder]
        set == ApplyOptions(initial, options)
        st == IF set.mappingBuilder = NilBuilder
              THEN [set EXCEPT !.mappingBuilder = DefaultBuilder]
              ELSE set
        built == RunBuilder(st, file)
    IN  IF built.err = "panic" THEN [static |-> Nil, err |-> "panic"]
        ELSE IF built.err # "nil" THEN [static |-> Nil, err |-> built.err]
        ELSE [static |-> [st EXCEPT !.mapping = built.mapper], err |-> "nil"]

(***************************************************************************)
(* The facade: ScriptTag, LinkTag, Static.                                 *)
(***************************************************************************)
Type == <<"t", "y", "p", "e">>
Rel == <<"r", "e", "l">>
Src == <<"s", "r", "c">>
Href == <<"h", "r", "e", "f">>
TextJavascript ==
    <<"t", "e", "x", "t", "/", "j", "a", "v", "a", "s", "c", "r", "i", "p", "t">>
TextCss == <<"t", "e", "x", "t", "/", "c", "s", "s">>
Stylesheet == <<"s", "t", "y", "l", "e", "s", "h", "e", "e", "t">>

\* map[string]string{"type": "text/javascript"}
ScriptDefaults == [k \in {Type} |-> TextJavascript]

\* map[string]string{"type": "text/css", "rel": "stylesheet"}
LinkDefaults == [k \in {Type, Rel} |-> IF k = Type THEN TextCss ELSE Stylesheet]

\* st.mapping.Get(path); a nil mapping panics
MappingGet(st, path) ==
    IF st.mapping.kind = "nil" THEN [value |-> Nil, err |-> "panic"]
    ELSE [value |-> Get(st.mapping, path), err |-> "nil"]

\* a mutant of TagAttrMap: the resolved URL is set before the merge, so that
\* the caller's attributes can replace it
TagAttrMapUrlFirst(st, defaults, urlAttr, path, attrs) ==
    LET sliced == attrSliceToMap(attrs)
        resolved == MappingGet(st, path)
    IN  IF sliced.err # "nil" THEN [attrMap |-> Nil, err |-> sliced.err]
        ELSE IF resolved.err # "nil" THEN [attrMap |-> Nil, err |-> resolved.err]
        ELSE [attrMap |-> updateMap(Put(defaults, urlAttr, st.urlPrefix \o resolved.value),
                                    sliced.attrMap),
              err |-> "nil"]

\* the body ScriptTag and LinkTag share, up to the rendering: the defaults
\* updated with the caller's attributes, then src / href set to the URL
TagAttrMap(st, defaults, urlAttr, path, attrs) ==
    LET sliced == attrSliceToMap(attrs)
        resolved == MappingGet(st, path)
    IN  IF sliced.err # "nil" THEN [attrMap |-> Nil, err |-> sliced.err]
        ELSE IF resolved.err # "nil" THEN [attrMap |-> Nil, err |-> resolved.err]
        ELSE [attrMap |-> Put(updateMap(defaults, sliced.attrMap), urlAttr,
                              st.urlPrefix \o resolved.value),
              err |-> "nil"]

ScriptOpen == <<"<", "s", "c", "r", "i", "p", "t", " ">>
ScriptClose == <<">", "<", "/", "s", "c", "r", "i", "p", "t", ">">>
LinkOpen == <<"<", "l", "i", "n", "k", " ">>
LinkClose == <<"/", ">">>

\* fmt.Sprintf(`<script %s></script>`, attrs)
ScriptMarkup(attrs) == ScriptOpen \o attrs \o ScriptClose

\* fmt.Sprintf(`<link %s/>`, attrs)
LinkMarkup(attrs) == LinkOpen \o attrs \o LinkClose

\* ScriptTag's local defaultAttrMap before rendering, or its error
ScriptTagAttrMap(st, path, attrs) == TagAttrMap(st, ScriptDefaults, Src, path, attrs)

\* LinkTag's local defaultAttrMap before rendering, or its error
LinkTagAttrMap(st, path, attrs) == TagAttrMap(st, LinkDefaults, Href, path, attrs)

\* a mutant of ScriptTagReturn: the opening of the tag is returned with the
\* error
ScriptTagReturnPartial(merged, order) ==
    IF merged.err = "panic" THEN [tag |-> Nil, err |-> "panic"]
    ELSE IF merged.err # "nil" THEN [tag |-> <<"<", "s", "c", "r", "i", "p", "t", " ">>,
                                     err |-> merged.err]
    ELSE [tag |-> <<"<", "s", "c", "r", "i", "p", "t", " ">>
                    \o mapToAttrs(merged.attrMap, order)
                    \o <<">", "<", "/", "s", "c", "r", "i", "p", "t", ">">>,
          err |-> "nil"]

\* the return of ScriptTag, given its defaultAttrMap (or the error that
\* ended the call before) and the range order inside mapToAttrs: (markup, err)
ScriptTagReturn(merged, order) ==
    IF merged.err = "panic" THEN [tag |-> Nil, err |-> "panic"]
    ELSE IF merged.err # "nil" THEN [tag |-> <<>>, err |-> merged.err]
    ELSE [tag |-> ScriptMarkup(mapToAttrs(merged.attrMap, order)), err |-> "nil"]

\* the return of LinkTag: (markup, err)
LinkTagReturn(merged, order) ==
    IF merged.err = "panic" THEN [tag |-> Nil, err |-> "panic"]
    ELSE IF merged.err # "nil" THEN [tag |-> <<>>, err |-> merged.err]
    ELSE [tag |-> LinkMarkup(mapToAttrs(merged.attrMap, order)), err |-> "nil"]

\* ScriptTag: (markup, err)
ScriptTag(st, path, attrs, order) ==
    ScriptTagReturn(ScriptTagAttrMap(st, path, attrs), order)

\* LinkTag: (markup, err)
LinkTag(st, path, attrs, order) ==
    LinkTagReturn(LinkTagAttrMap(st, path, attrs), order)

\* the range orders a render call may meet
OrdersOf(merged) ==
    IF merged.err = "nil" THEN RangeOrders(DOMAIN merged.attrMap) ELSE {<<>>}

\* Static.Static
StaticPrefix(st) == st.urlPrefix

(***************************************************************************)
(* The operations of the facade.                                           *)
(***************************************************************************)
ManifestPath == <<"m">>

\* static, err := NewStatic(urlPrefix, manifestPath, options...), called once
NewStaticCall(urlPrefix, options, file) ==
    /\ op = "none"
    /\ LET r == NewStatic(urlPrefix, ManifestPath, options, file) IN
        /\ static' = r.static
        /\ ret' = r.static
        /\ err' = r.err
    /\ op' = "NewStatic"
    /\ args' = [urlPrefix |-> urlPrefix, options |-> options, file |-> file]
    /\ UNCHANGED <<mapping, calls>>

\* tag, err := static.ScriptTag(path, attrs...)
ScriptTagCall(path, attrs) ==
    /\ static # Nil
    /\ LET merged == ScriptTagAttrMap(static, path, attrs) IN
       \E order \in OrdersOf(merged) :
          LET r == ScriptTagReturn(merged, order) IN
            /\ ret' = r.tag
            /\ err' = r.err
    /\ op' = "ScriptTag"
    /\ args' = [path |-> path, attrs |-> attrs]
    /\ UNCHANGED <<static, mapping, calls>>

\* tag, err := static.LinkTag(path, attrs...)
LinkTagCall(path, attrs) ==
    /\ static # Nil
    /\ LET merged == LinkTagAttrMap(static, path, attrs) IN
       \E order \in OrdersOf(merged) :
          LET r == LinkTagReturn(merged, order) IN
            /\ ret' = r.tag
            /\ err' = r.err
    /\ op' = "LinkTag"
    /\ args' = [path |-> path, attrs |-> attrs]
    /\ UNCHANGED <<static, mapping, calls>>

\* static.Static()
StaticCall ==
    /\ static # Nil
    /\ ret' = StaticPrefix(static)
    /\ err' = "nil"
    /\ op' = "Static"
    /\ args' = Nil
    /\ UNCHANGED <<static, mapping, calls>>

\* attrMap, err := attrSliceToMap(attrs), called directly
AttrSliceToMapCall(attrs) ==
    /\ LET r == attrSliceToMap(attrs) IN
        /\ ret' = r.attrMap
        /\ err' = r.err
    /\ op' = "attrSliceToMap"
    /\ args' = [attrs |-> attrs]
    /\ UNCHANGED <<static, mapping, calls>>

\* mapToAttrs(attrMap), called directly
MapToAttrsCall(attrMap) ==
    /\ \E order \in RangeOrders(DOMAIN attrMap) : ret' = mapToAttrs(attrMap, order)
    /\ err' = "nil"
    /\ op' = "mapToAttrs"
    /\ args' = [attrMap |-> attrMap]
    /\ UNCHANGED <<static, mapping, calls>>

(***************************************************************************)
(* The life of a facade: constructed once, then used by the templates.     *)
(***************************************************************************)
\* a manifest as the asset pipeline writes it: a name with both variants, a
\* name whose minified variant is no string
SampleObject ==
    LET a == <<"a", ".", "j", "s">>
        b == <<"c", ".", "d", "/", "b">>
    IN  [k \in {a, toMinifiedName(a), b, toMinifiedName(b)} |->
            CASE k = a -> JsonString(<<"x">>)
              [] k = toMinifiedName(a) -> JsonString(<<"y">>)
              [] k = b -> JsonString(<<"x", "&">>)
              [] OTHER -> JsonOther]

\* manifest bytes the loaders of the options return
SampleContents == {InvalidJson, NonObjectJson("array"), ObjectJson(SampleObject)}

\* the file at the manifest path
Files == {NoFile, ObjectJson(SampleObject)}

Prefixes == { <<>>, <<"s">>, <<"s", "/">>, <<"s", "/", "/">> }

OptionPool ==
    { WithManifestLoader(l) :
        l \in {NilLoader, FailingLoader} \cup { ContentLoader(c) : c \in SampleContents } }
    \cup { WithUseMinified(b) : b \in BOOLEAN }
    \cup { WithMappingBuilder(b) :
            b \in { NilBuilder,
                    CustomBuilder(NilMapper, "builder error"),
                    CustomBuilder(StaticMap(SampleObject, TRUE), "nil") } }

\* the option lists of at most MaxOptions options
OptionLists == UNION { [1..n -> OptionPool] : n \in 0..MaxOptions }

\* the attribute lists the templates pass to ScriptTag and to LinkTag: none,
\* an odd one, the URL attribute, a default attribute
ScriptAttrLists == { <<>>, <<Src>>, <<Src, <<"x">>>>, <<Type, <<"x">>>> }
LinkAttrLists == { <<>>, <<Href>>, <<Href, <<"&">>>>, <<Type, <<"x">>>> }

Init == InitMapping

Next ==
    \/ op = "none" /\ \E urlPrefix \in Prefixes, options \in OptionLists, file \in Files :
                        NewStaticCall(urlPrefix, options, file)
    \/ static # Nil /\ \E path \in Names, attrs \in ScriptAttrLists : ScriptTagCall(path, attrs)
    \/ static # Nil /\ \E path \in Names, attrs \in LinkAttrLists : LinkTagCall(path, attrs)
    \/ StaticCall

Spec == Init /\ [][Next]_vars

(***************************************************************************)
(* Rendering: one call on a constructed facade, over all attribute lists.  *)
(***************************************************************************)
\* the strings passed as attribute names and values: the names of the
\* defaults and of a URL attribute, a string to escape, and a name that
\* follows "rel" as a name but precedes it once rendered ("-" < "=")
RelDash == <<"r", "e", "l", "-">>
AttrStrings == { Type, Rel, Src, RelDash, <<"\"", "<">> }

\* the attribute lists of at most MaxAttrs strings
AttrLists == UNION { [1..n -> AttrStrings] : n \in 0..MaxAttrs }

\* the facades rendering is checked on: without a manifest, and with the
\* sample manifest in minified mode
RenderFacades ==
    { NewStatic(<<"s">>, ManifestPath, options, NoFile).static :
        options \in { <<WithManifestLoader(NilLoader)>>,
                      <<WithManifestLoader(ContentLoader(ObjectJson(SampleObject))),
                        WithUseMinified(TRUE)>> } }

InitRender ==
    /\ static \in RenderFacades
    /\ mapping = NilMapper
    /\ op = "none"
    /\ args = Nil
    /\ ret = Nil
    /\ err = "nil"
    /\ calls = <<>>

\* the attribute maps mapToAttrs is called on directly
AttrMaps == { attrSliceToMap(attrs).attrMap : attrs \in { a \in AttrLists : Len(a) % 2 = 0 } }

NextRender ==
    \/ op = "none" /\ \E path \in Names, attrs \in AttrLists : ScriptTagCall(path, attrs)
    \/ op = "none" /\ \E path \in Names, attrs \in AttrLists : LinkTagCall(path, attrs)
    \/ op = "none" /\ \E attrs \in AttrLists : AttrSliceToMapCall(attrs)
    \/ op = "none" /\ \E attrMap \in AttrMaps : MapToAttrsCall(attrMap)

SpecRender == InitRender /\ [][NextRender]_vars

(***************************************************************************)
(* Subresource integrity: the option the tests TestScriptTagSri and        *)
(* TestLinkTagSri use (WithUseSri). A render call then reads the bytes of  *)
(* the resolved asset, and adds integrity and crossorigin to its           *)
(* attributes.                                                             *)
(***************************************************************************)
Integrity == <<"i", "n", "t", "e", "g", "r", "i", "t", "y">>
Crossorigin == <<"c", "r", "o", "s", "s", "o", "r", "i", "g", "i", "n">>
Anonymous == <<"a", "n", "o", "n", "y", "m", "o", "u", "s">>
Sha256Prefix == <<"s", "h", "a", "2", "5", "6", "-">>

\* the bytes of the assets of the model: an empty file and two one-byte files
AssetContents == { <<>>, <<"x">>, <<"y">> }

\* base64.StdEncoding of the SHA-256 digest of these contents
Sha256Base64(content) ==
    CASE content = <<>> ->
           <<"4", "7", "D", "E", "Q", "p", "j", "8", "H", "B", "S", "a", "+", "/", "T",
             "I", "m", "W", "+", "5", "J", "C", "e", "u", "Q", "e", "R", "k", "m", "5",
             "N", "M", "p", "J", "W", "Z", "G", "3", "h", "S", "u", "F", "U", "=">>
      [] content = <<"x">> ->
           <<"L", "X", "E", "W", "Q", "r", "c", "m", "s", "E", "Q", "B", "Y", "n", "y",
             "p", "+", "6", "w", "y", "9", "c", "h", "T", "D", "7", "G", "Q", "P", "M",
             "T", "b", "A", "i", "W", "H", "F", "5", "I", "a", "S", "I", "E", "=">>
      [] content = <<"y">> ->
           <<"o", "f", "z", "k", "N", "j", "h", "U", "/", "4", "i", "M", "/", "0", "u",
             "O", "e", "H", "X", "W", "A", "M", "J", "o", "I", "5", "B", "B", "K", "o",
             "z", "3", "m", "z", "f", "Q", "s", "R", "F", "I", "s", "P", "o", "=">>

\* a mutant of Hash: the digest without the name of the algorithm
HashNoPrefix(content) == Sha256Base64(content)

\* the integrity descriptor of a content
Hash(content) == Sha256Prefix \o Sha256Base64(content)

WithUseSri(sri) == [option |-> "WithUseSri", sri |-> sri]

\* optionSetter(static), the SRI option included
ApplyOptionSri(st, o) ==
    IF o.option = "WithUseSri" THEN [st EXCEPT !.useSri = o.sri] ELSE ApplyOption(st, o)

RECURSIVE ApplyOptionsSri(_, _)
ApplyOptionsSri(st, options) ==
    IF options = <<>> THEN st
    ELSE ApplyOptionsSri(ApplyOptionSri(st, Head(options)), Tail(options))

\* NewStatic with the SRI flag among the fields of Static
NewStaticSri(urlPrefix, manifestPath, options, file) ==
    LET initial == [urlPrefix |-> NormalizePrefix(urlPrefix),
                    manifestPath |-> manifestPath,
                    manifestLoader |-> ReadFile,
                    useMinified |-> FALSE,
                    useSri |-> FALSE,
                    mapping |-> NilMapper,
                    mappingBuilder |-> NilBuilder]
        set == ApplyOptionsSri(initial, options)
        st == IF set.mappingBuilder = NilBuilder
              THEN [set EXCEPT !.mappingBuilder = DefaultBuilder]
              ELSE set
        built == RunBuilder(st, file)
    IN  IF built.err = "panic" THEN [static |-> Nil, err |-> "panic"]
        ELSE IF built.err # "nil" THEN [static |-> Nil, err |-> built.err]
        ELSE [static |-> [st EXCEPT !.mapping = built.mapper], err |-> "nil"]

\* a mutant of SriAttrMap: the integrity attribute alone is added
SriAttrMapNoCrossorigin(st, merged, asset) ==
    IF merged.err # "nil" \/ ~st.useSri THEN merged
    ELSE IF asset = NoFile THEN [attrMap |-> Nil, err |-> "asset read error"]
    ELSE [attrMap |-> Put(merged.attrMap, Integrity, Hash(asset.bytes)), err |-> "nil"]

\* the SRI step of a render call, after src / href is set: asset is what
\* reading the resolved asset gives, its bytes or NoFile when it cannot be read
SriAttrMap(st, merged, asset) ==
    IF merged.err # "nil" \/ ~st.useSri THEN merged
    ELSE IF asset = NoFile THEN [attrMap |-> Nil, err |-> "asset read error"]
    ELSE [attrMap |-> Put(Put(merged.attrMap, Integrity, Hash(asset.bytes)),
                          Crossorigin, Anonymous),
          err |-> "nil"]

\* static, err := NewStatic(urlPrefix, manifestPath, options...), called once
NewStaticSriCall(urlPrefix, options, file) ==
    /\ op = "none"
    /\ LET r == NewStaticSri(urlPrefix, ManifestPath, options, file) IN
        /\ static' = r.static
        /\ ret' = r.static
        /\ err' = r.err
    /\ op' = "NewStatic"
    /\ args' = [urlPrefix |-> urlPrefix, options |-> options, file |-> file]
    /\ UNCHANGED <<mapping, calls>>

\* tag, err := static.ScriptTag(path, attrs...), asset being read if SRI is on
ScriptTagSriCall(path, attrs, asset) ==
    /\ static # Nil
    /\ LET merged == SriAttrMap(static, ScriptTagAttrMap(static, path, attrs), asset) IN
       \E order \in OrdersOf(merged) :
          LET r == ScriptTagReturn(merged, order) IN
            /\ ret' = r.tag
            /\ err' = r.err
    /\ op' = "ScriptTag"
    /\ args' = [path |-> path, attrs |-> attrs, asset |-> asset]
    /\ UNCHANGED <<static, mapping, calls>>

\* tag, err := static.LinkTag(path, attrs...), asset being read if SRI is on
LinkTagSriCall(path, attrs, asset) ==
    /\ static # Nil
    /\ LET merged == SriAttrMap(static, LinkTagAttrMap(static, path, attrs), asset) IN
       \E order \in OrdersOf(merged) :
          LET r == LinkTagReturn(merged, order) IN
            /\ ret' = r.tag
            /\ err' = r.err
    /\ op' = "LinkTag"
    /\ args' = [path |-> path, attrs |-> attrs, asset |-> asset]
    /\ UNCHANGED <<static, mapping, calls>>

\* the options of the facades SRI is checked on; each facade renders one
\* tag after its construction
SriOptionPool ==
    { WithUseSri(b) : b \in BOOLEAN }
    \cup { WithUseMinified(TRUE),
           WithManifestLoader(ContentLoader(ObjectJson(SampleObject))) }

SriOptionLists == UNION { [1..n -> SriOptionPool] : n \in 0..MaxOptions }

\* the attribute lists of the render calls: none, an odd one, and the
\* attributes of SRI given by the caller
SriAttrLists ==
    { <<>>, <<Type>>, <<Integrity, <<"x">>>>, <<Crossorigin, <<"x">>, Type, <<"x">>>> }

\* what reading the resolved asset gives: no file, or a file of given bytes
AssetFile(content) == [json |-> "bytes", bytes |-> content]
AssetReads == {NoFile} \cup { AssetFile(c) : c \in AssetContents }

NextSri ==
    \/ op = "none" /\ \E options \in SriOptionLists :
                        NewStaticSriCall(<<>>, options, NoFile)
    \/ op = "NewStatic" /\ static # Nil /\
         \E path \in Names, attrs \in SriAttrLists, asset \in AssetReads :
            ScriptTagSriCall(path, attrs, asset)
    \/ op = "NewStatic" /\ static # Nil /\
         \E path \in Names, attrs \in SriAttrLists, asset \in AssetReads :
            LinkTagSriCall(path, attrs, asset)

SpecSri == Init /\ [][NextSri]_vars

(***************************************************************************)
(* Concurrent callers of one facade (the template functions of FuncMap are *)
(* called by every request that executes a template). A call advances one  *)
(* statement at a time; the calls of different callers interleave.         *)
(***************************************************************************)
Callers == 1..MaxCallers

\* the frame of a call: the method, its arguments, its locals defaultAttrMap
\* and attrMap (nil maps before their assignment), the statement it is at,
\* and what it returned
Frame(kind, path, attrs, pc) ==
    [kind |-> kind, path |-> path, attrs |-> attrs, pc |-> pc,
     defaultAttrMap |-> <<>>, attrMap |-> <<>>, tag |-> <<>>, err |-> "nil"]

IdleFrame == Frame("none", <<>>, <<>>, "idle")

\* defaultAttrMap := map[string]string{...}
DefaultsStep(cs, c) ==
    [cs EXCEPT ![c].defaultAttrMap =
                  IF cs[c].kind = "ScriptTag" THEN ScriptDefaults ELSE LinkDefaults,
               ![c].pc = "slice"]

\* attrMap, err := attrSliceToMap(attrs); if err != nil { return "", err }
SliceStep(cs, c) ==
    LET sliced == attrSliceToMap(cs[c].attrs)
    IN  IF sliced.err # "nil"
        THEN [cs EXCEPT ![c].tag = <<>>, ![c].err = sliced.err, ![c].pc = "done"]
        ELSE [cs EXCEPT ![c].attrMap = sliced.attrMap, ![c].pc = "update"]

\* a mutant of UpdateStep: the default attributes of a method are one map of
\* the package, which the calls in progress share
UpdateStepShared(cs, c) ==
    [d \in DOMAIN cs |->
        IF d = c
        THEN [cs[d] EXCEPT !.defaultAttrMap = updateMap(@, cs[c].attrMap), !.pc = "url"]
        ELSE IF cs[d].kind = cs[c].kind /\ cs[d].pc \in {"slice", "update", "url", "render"}
        THEN [cs[d] EXCEPT !.defaultAttrMap = updateMap(@, cs[c].attrMap)]
        ELSE cs[d]]

\* updateMap(defaultAttrMap, attrMap)
UpdateStep(cs, c) ==
    [cs EXCEPT ![c].defaultAttrMap = updateMap(@, cs[c].attrMap), ![c].pc = "url"]

\* defaultAttrMap["src"] = st.urlPrefix + st.mapping.Get(path)  (href in LinkTag)
UrlStep(st, cs, c) ==
    LET resolved == MappingGet(st, cs[c].path)
        urlAttr == IF cs[c].kind = "ScriptTag" THEN Src ELSE Href
    IN  IF resolved.err # "nil"
        THEN [cs EXCEPT ![c].tag = Nil, ![c].err = resolved.err, ![c].pc = "done"]
        ELSE [cs EXCEPT ![c].defaultAttrMap = Put(@, urlAttr, st.urlPrefix \o resolved.value),
                        ![c].pc = "render"]

\* return template.HTML(fmt.Sprintf(..., mapToAttrs(defaultAttrMap))), nil
RenderStep(cs, c, order) ==
    LET attrs == mapToAttrs(cs[c].defaultAttrMap, order)
    IN  [cs EXCEPT ![c].tag = IF cs[c].kind = "ScriptTag" THEN ScriptMarkup(attrs)
                              ELSE LinkMarkup(attrs),
                   ![c].err = "nil",
                   ![c].pc = "done"]

\* return template.HTML(st.urlPrefix)
StaticStep(st, cs, c) ==
    [cs EXCEPT ![c].tag = StaticPrefix(st), ![c].err = "nil", ![c].pc = "done"]

\* caller c calls ScriptTag, LinkTag or Static
CallBegin(c, kind, path, attrs) ==
    /\ calls[c].pc \in {"idle", "done"}
    /\ calls' = [calls EXCEPT ![c] = Frame(kind, path, attrs, "start")]
    /\ UNCHANGED <<static, mapping, op, args, ret, err>>

CallDefaults(c) ==
    /\ calls[c].pc = "start"
    /\ calls[c].kind \in {"ScriptTag", "LinkTag"}
    /\ calls' = DefaultsStep(calls, c)
    /\ UNCHANGED <<static, mapping, op, args, ret, err>>

CallSlice(c) ==
    /\ calls[c].pc = "slice"
    /\ calls' = SliceStep(calls, c)
    /\ UNCHANGED <<static, mapping, op, args, ret, err>>

CallUpdate(c) ==
    /\ calls[c].pc = "update"
    /\ calls' = UpdateStep(calls, c)
    /\ UNCHANGED <<static, mapping, op, args, ret, err>>

CallUrl(c) ==
    /\ calls[c].pc = "url"
    /\ calls' = UrlStep(static, calls, c)
    /\ UNCHANGED <<static, mapping, op, args, ret, err>>

CallRender(c) ==
    /\ calls[c].pc = "render"
    /\ \E order \in RangeOrders(DOMAIN calls[c].defaultAttrMap) :
          calls' = RenderStep(calls, c, order)
    /\ UNCHANGED <<static, mapping, op, args, ret, err>>

CallStatic(c) ==
    /\ calls[c].pc = "start"
    /\ calls[c].kind = "Static"
    /\ calls' = StaticStep(static, calls, c)
    /\ UNCHANGED <<static, mapping, op, args, ret, err>>

\* the asset the concurrent calls name: the one the sample manifest resolves
ConcurrentNames == { <<"a", ".", "j", "s">> }

\* the attribute lists of the concurrent calls: none, an override of a
\* default, an odd one
ConcurrentAttrLists == { <<>>, <<Type, <<"x">>>>, <<Rel>> }

InitConcurrent ==
    /\ static \in RenderFacades
    /\ mapping = NilMapper
    /\ op = "none"
    /\ args = Nil
    /\ ret = Nil
    /\ err = "nil"
    /\ calls = [c \in Callers |-> IdleFrame]

NextConcurrent ==
    \E c \in Callers :
        \/ \E kind \in {"ScriptTag", "LinkTag"}, path \in ConcurrentNames, attrs \in ConcurrentAttrLists :
              CallBegin(c, kind, path, attrs)
        \/ CallBegin(c, "Static", <<>>, <<>>)
        \/ CallDefaults(c)
        \/ CallSlice(c)
        \/ CallUpdate(c)
        \/ CallUrl(c)
        \/ CallRender(c)
        \/ CallStatic(c)

SpecConcurrent == InitConcurrent /\ [][NextConcurrent]_vars

(***************************************************************************)
(* Vocabulary of the properties.                                           *)
(***************************************************************************)
\* the manifest holds a string under the key
HasStringAt(m, k) == k \in DOMAIN m /\ m[k].t = "string"

\* name splits after position i into <stem> and <ext>, <ext> being the last
\* "." segment of the base name (empty when the base name has no ".")
IsStemAndExt(name, i) ==
    LET ext == SubSeq(name, i + 1, Len(name))
        base == { j \in 1..Len(name) : \A l \in j..Len(name) : name[l] # "/" }
    IN  IF ext = <<>>
        THEN \A j \in base : name[j] # "."
        ELSE /\ ext[1] = "."
             /\ \A j \in 2..Len(ext) : ext[j] \notin {".", "/"}

\* the minified key of a name: <stem>.min<ext>
MinifiedKeyOf(name) ==
    LET i == CHOOSE k \in 0..Len(name) : IsStemAndExt(name, k)
    IN  SubSeq(name, 1, i) \o <<".", "m", "i", "n">> \o SubSeq(name, i + 1, Len(name))

\* the number of "/" a string ends with
RECURSIVE TrailingSeparators(_)
TrailingSeparators(s) ==
    IF s = <<>> \/ s[Len(s)] # "/" THEN 0
    ELSE 1 + TrailingSeparators(SubSeq(s, 1, Len(s) - 1))

\* the number of places of a string where sub occurs
Count(s, sub) ==
    Cardinality({ i \in 1..(Len(s) - Len(sub) + 1) : SubSeq(s, i, i + Len(sub) - 1) = sub })

\* the characters html.EscapeString replaces, and what it writes for them
EscapeTable ==
    [c \in {"&", "'", "<", ">", "\""} |->
        CASE c = "&" -> <<"&", "a", "m", "p", ";">>
          [] c = "'" -> <<"&", "#", "3", "9", ";">>
          [] c = "<" -> <<"&", "l", "t", ";">>
          [] c = ">" -> <<"&", "g", "t", ";">>
          [] c = "\"" -> <<"&", "#", "3", "4", ";">>]

\* s with every character of the table replaced
RECURSIVE Escaped(_)
Escaped(s) ==
    IF s = <<>> THEN <<>>
    ELSE (IF Head(s) \in DOMAIN EscapeTable THEN EscapeTable[Head(s)] ELSE <<Head(s)>>)
         \o Escaped(Tail(s))

\* the attribute name="value" as it stands in markup
Rendered(name, value) == Escaped(name) \o <<"=", "\"">> \o Escaped(value) \o <<"\"">>

\* the rendered pairs of an attribute map, each placed by the number of
\* rendered pairs that are less, joined by single spaces
RenderedSorted(attrMap) ==
    LET items == { Rendered(k, attrMap[k]) : k \in DOMAIN attrMap }
        place(x) == 1 + Cardinality({ y \in items : StrLess(y, x) })
        at(i) == CHOOSE x \in items : place(x) = i
        RECURSIVE from(_)
        from(i) == IF i > Cardinality(items) THEN <<>>
                   ELSE IF i = Cardinality(items) THEN at(i)
                   ELSE at(i) \o <<" ">> \o from(i + 1)
    IN  from(1)

\* the names of the pairs of an attribute list, and the value of the last
\* pair of a name
PairNames(attrs) == { attrs[2 * i - 1] : i \in 1..(Len(attrs) \div 2) }
LastValue(attrs, name) ==
    LET last == CHOOSE i \in 1..(Len(attrs) \div 2) :
                    /\ attrs[2 * i - 1] = name
                    /\ \A j \in (i + 1)..(Len(attrs) \div 2) : attrs[2 * j - 1] # name
    IN  attrs[2 * last]

\* the attribute lists that hold the pairs of attrs in another order
PairPermutations(attrs) ==
    LET n == Len(attrs) \div 2
    IN  { [k \in 1..(2 * n) |-> attrs[2 * p[(k + 1) \div 2] - (k % 2)]] : p \in Permutations1[n] }

\* no two pairs of the list give the same name different values
NoConflictingPairs(attrs) ==
    \A i, j \in 1..(Len(attrs) \div 2) :
        attrs[2 * i - 1] = attrs[2 * j - 1] => attrs[2 * i] = attrs[2 * j]

\* every markup the last render call can return for the attribute list attrs
RenderResults(attrs) ==
    LET merged == IF op = "ScriptTag" THEN ScriptTagAttrMap(static, args.path, attrs)
                  ELSE LinkTagAttrMap(static, args.path, attrs)
    IN  { IF op = "ScriptTag" THEN ScriptTagReturn(merged, order).tag
          ELSE LinkTagReturn(merged, order).tag : order \in OrdersOf(merged) }

RenderOps == {"ScriptTag", "LinkTag"}

(***************************************************************************)
(* C1.                                                                     *)
(***************************************************************************)
\* C1 as stated: for a name that is no key of the mapping, Get(name) is the
\* name, whatever the minified flag is.
C1_IdentityWhateverFlag ==
    (op = "Get" /\ args.name \notin DOMAIN mapping.innerMap) => ret = args.name

\* C1, amended: for a name that is no key of the mapping, Get(name) is the
\* name when the minified flag is off, and when it is on and the minified key
\* of the name holds no string; with the flag on and a string at the minified
\* key, Get(name) is that string.
C1_IdentityFallback ==
    (op = "Get" /\ args.name \notin DOMAIN mapping.innerMap) =>
        LET m == mapping.innerMap
            minified == MinifiedKeyOf(args.name)
        IN  IF mapping.useMinified /\ HasStringAt(m, minified)
            THEN ret = m[minified].s
            ELSE ret = args.name

\* a name that is no key, looked up in minified mode in a manifest holding a
\* non-string at its minified key: the name comes back
C1_Witness ==
    /\ op = "Get"
    /\ args.name \notin DOMAIN mapping.innerMap
    /\ mapping.useMinified
    /\ MinifiedKeyOf(args.name) \in DOMAIN mapping.innerMap
    /\ ~HasStringAt(mapping.innerMap, MinifiedKeyOf(args.name))
    /\ ret = args.name

(***************************************************************************)
(* C2.                                                                     *)
(***************************************************************************)
\* C2: in minified mode Get(name) is the string at the minified key of the
\* name if there is one; otherwise the string at the key name if there is
\* one; otherwise the name.
C2_MinifiedLookup ==
    (op = "Get" /\ mapping.useMinified) =>
        LET m == mapping.innerMap
            minified == MinifiedKeyOf(args.name)
        IN  IF HasStringAt(m, minified) THEN ret = m[minified].s
            ELSE IF HasStringAt(m, args.name) THEN ret = m[args.name].s
            ELSE ret = args.name

\* minified mode, a non-string at the minified key and a string at the plain
\* key: the plain string comes back
C2_Witness ==
    /\ op = "Get"
    /\ mapping.useMinified
    /\ MinifiedKeyOf(args.name) \in DOMAIN mapping.innerMap
    /\ ~HasStringAt(mapping.innerMap, MinifiedKeyOf(args.name))
    /\ HasStringAt(mapping.innerMap, args.name)
    /\ ret = mapping.innerMap[args.name].s
    /\ ret # args.name

(***************************************************************************)
(* C3.                                                                     *)
(***************************************************************************)
\* C3: ScriptTag, LinkTag and attrSliceToMap return no error for an attribute
\* list of even length, and the invalid-attributes error for one of odd
\* length.
C3_EvenOddAttrs ==
    (op \in RenderOps \cup {"attrSliceToMap"}) =>
        IF Len(args.attrs) % 2 = 0 THEN err = "nil" ELSE err = "attrs error"

\* LinkTag called with three attribute strings has failed
C3_Witness ==
    /\ op = "LinkTag"
    /\ Len(args.attrs) = 3
    /\ err = "attrs error"

(***************************************************************************)
(* C4.                                                                     *)
(***************************************************************************)
\* C4 as stated: the pairs of the attribute list in any other order give
\* the same markup.
C4_AnyPermutation ==
    (op \in RenderOps /\ err = "nil") =>
        \A permuted \in PairPermutations(args.attrs) : RenderResults(permuted) = {ret}

\* C4, amended: the pairs of the attribute list in any other order give the
\* same markup, provided no two pairs give the same name different values
\* (of two such pairs the later one wins, so their order shows).
C4_PermutationWithoutConflict ==
    (op \in RenderOps /\ err = "nil" /\ NoConflictingPairs(args.attrs)) =>
        \A permuted \in PairPermutations(args.attrs) : RenderResults(permuted) = {ret}

\* a tag rendered from two pairs of different names, which can be swapped
C4_Witness ==
    /\ op = "ScriptTag"
    /\ err = "nil"
    /\ Len(args.attrs) = 4
    /\ args.attrs[1] # args.attrs[3]
    /\ args.attrs[1] \notin {Src, Type}
    /\ args.attrs[3] \notin {Src, Type}

(***************************************************************************)
(* C5.                                                                     *)
(***************************************************************************)
\* the default attributes of the last render call
DefaultsOf(o) == IF o = "ScriptTag" THEN ScriptDefaults ELSE LinkDefaults

\* C5: when the caller passes a pair named like a default attribute (type
\* for ScriptTag; type and rel for LinkTag), the tag holds one attribute of
\* that name, and its value is the caller's (of the caller's last pair of
\* that name), whole and alone.
C5_OverrideWins ==
    (op \in RenderOps /\ err = "nil") =>
        \A name \in DOMAIN DefaultsOf(op) \cap PairNames(args.attrs) :
            /\ Count(ret, <<" ">> \o Escaped(name) \o <<"=", "\"">>) = 1
            /\ Count(ret, <<" ">> \o Rendered(name, LastValue(args.attrs, name))) = 1

\* LinkTag called with a rel pair whose value is not the default
C5_Witness ==
    /\ op = "LinkTag"
    /\ err = "nil"
    /\ Rel \in PairNames(args.attrs)
    /\ LastValue(args.attrs, Rel) # Stylesheet
    /\ Count(ret, <<" ">> \o Rendered(Rel, Stylesheet)) = 0

(***************************************************************************)
(* C6.                                                                     *)
(***************************************************************************)
\* the URL attribute of the last render call
UrlAttrOf(o) == IF o = "ScriptTag" THEN Src ELSE Href

\* C6: a successful ScriptTag (LinkTag) returns a tag with one src (href)
\* attribute, whose value is urlPrefix + mapping.Get(name), also when the
\* caller passes a src (href) pair.
C6_ResolvedUrl ==
    (op \in RenderOps /\ err = "nil") =>
        LET url == static.urlPrefix \o Get(static.mapping, args.path)
        IN  /\ Count(ret, <<" ">> \o Escaped(UrlAttrOf(op)) \o <<"=", "\"">>) = 1
            /\ Count(ret, <<" ">> \o Rendered(UrlAttrOf(op), url)) = 1

\* ScriptTag called with a src pair of its own, on a facade whose manifest
\* resolves the name
C6_Witness ==
    /\ op = "ScriptTag"
    /\ err = "nil"
    /\ Src \in PairNames(args.attrs)
    /\ static.mapping.kind = "StaticMap"
    /\ Get(static.mapping, args.path) # args.path
    /\ LastValue(args.attrs, Src) # static.urlPrefix \o Get(static.mapping, args.path)

(***************************************************************************)
(* C7.                                                                     *)
(***************************************************************************)
\* C7: mapToAttrs returns the escaped name="value" strings of the pairs of
\* the attribute map, in increasing order of the whole strings, joined by
\* single spaces, whatever the order in which the map is ranged over; and
\* so are the attributes of a tag.
C7_SortedEscapedAttrs ==
    /\ op = "mapToAttrs" => ret = RenderedSorted(args.attrMap)
    /\ (op = "ScriptTag" /\ err = "nil") =>
          ret = ScriptOpen \o RenderedSorted(ScriptTagAttrMap(static, args.path, args.attrs).attrMap)
                           \o ScriptClose
    /\ (op = "LinkTag" /\ err = "nil") =>
          ret = LinkOpen \o RenderedSorted(LinkTagAttrMap(static, args.path, args.attrs).attrMap)
                         \o LinkClose

\* a tag rendered from a pair with characters to escape and from pairs named
\* rel and rel-, where rel- stands first though rel is the lesser name
C7_Witness ==
    /\ op = "LinkTag"
    /\ err = "nil"
    /\ PairNames(args.attrs) = {RelDash, <<"\"", "<">>}
    /\ Count(ret, Rendered(RelDash, LastValue(args.attrs, RelDash)) \o <<" ">>
                  \o Rendered(Rel, Stylesheet)) = 1
    /\ Count(ret, <<"&", "#", "3", "4", ";", "&", "l", "t", ";", "=">>) = 1

(***************************************************************************)
(* C8.                                                                     *)
(***************************************************************************)
\* C8 as stated: the prefix of a constructed facade, which Static()
\* returns, ends with exactly one "/".
C8_ExactlyOneSeparator ==
    /\ static # Nil => TrailingSeparators(static.urlPrefix) = 1
    /\ op = "Static" => TrailingSeparators(ret) = 1

\* C8, amended: the prefix of a constructed facade, which Static() returns,
\* is the urlPrefix passed to NewStatic with a "/" appended if it does not
\* end with one already: it ends with at least one "/", and with exactly one
\* unless the urlPrefix passed ends with several, which are all kept.
C8_AtLeastOneSeparator ==
    /\ static # Nil => TrailingSeparators(static.urlPrefix) >= 1
    /\ op = "Static" => ret = static.urlPrefix
    /\ (op = "NewStatic" /\ static # Nil) =>
          LET given == TrailingSeparators(args.urlPrefix)
              kept == TrailingSeparators(static.urlPrefix)
          IN  /\ kept = IF given = 0 THEN 1 ELSE given
              /\ SubSeq(static.urlPrefix, 1, Len(static.urlPrefix) - kept)
                    = SubSeq(args.urlPrefix, 1, Len(args.urlPrefix) - given)

\* a facade constructed with a urlPrefix that has no "/" at its end
C8_Witness ==
    /\ op = "NewStatic"
    /\ static # Nil
    /\ args.urlPrefix # <<>>
    /\ TrailingSeparators(args.urlPrefix) = 0
    /\ TrailingSeparators(static.urlPrefix) = 1

(***************************************************************************)
(* C9.                                                                     *)
(***************************************************************************)
\* the builder NewStatic runs for the given options, and whether it fails
BuilderFails(options, file) ==
    LET set == ApplyOptions([manifestLoader |-> ReadFile, useMinified |-> FALSE,
                             mappingBuilder |-> NilBuilder], options)
    IN  IF set.mappingBuilder # NilBuilder THEN set.mappingBuilder.err # "nil"
        ELSE \/ set.manifestLoader = FailingLoader
             \/ set.manifestLoader = ReadFile /\ file = NoFile
             \/ /\ set.manifestLoader.kind = "returns"
                /\ set.manifestLoader.content.json # "object"
             \/ /\ set.manifestLoader = ReadFile
                /\ file.json # "object"

\* C9: NewStatic returns a facade with a mapping and no error, or no facade
\* and an error; and it returns an error whenever the loader fails, the
\* manifest does not parse or the custom builder returns an error.
C9_AllOrNothing ==
    op = "NewStatic" =>
        /\ \/ static # Nil /\ static.mapping.kind # "nil" /\ err = "nil"
           \/ static = Nil /\ err \notin {"nil", "panic"}
        /\ BuilderFails(args.options, args.file) => (static = Nil /\ err \notin {"nil", "panic"})

(***************************************************************************)
(* C10.                                                                    *)
(***************************************************************************)
\* C10: createMapping returns a parse error, as an error value, for bytes
\* that are not JSON and for bytes that are JSON but no object.
C10_ParseError ==
    (op = "createMapping" /\ args.load.kind = "returns" /\ args.load.content.json # "object")
        => err = "json error"

(***************************************************************************)
(* C11.                                                                    *)
(***************************************************************************)
\* the integrity descriptors of the asset contents: "sha256-" and the
\* base64 SHA-256 digest, as a browser computes them
IntegrityOf(content) ==
    CASE content = <<>> ->
           <<"s", "h", "a", "2", "5", "6", "-", "4", "7", "D", "E", "Q", "p", "j",
             "8", "H", "B", "S", "a", "+", "/", "T", "I", "m", "W", "+", "5", "J",
             "C", "e", "u", "Q", "e", "R", "k", "m", "5", "N", "M", "p", "J", "W",
             "Z", "G", "3", "h", "S", "u", "F", "U", "=">>
      [] content = <<"x">> ->
           <<"s", "h", "a", "2", "5", "6", "-", "L", "X", "E", "W", "Q", "r", "c",
             "m", "s", "E", "Q", "B", "Y", "n", "y", "p", "+", "6", "w", "y", "9",
             "c", "h", "T", "D", "7", "G", "Q", "P", "M", "T", "b", "A", "i", "W",
             "H", "F", "5", "I", "a", "S", "I", "E", "=">>
      [] content = <<"y">> ->
           <<"s", "h", "a", "2", "5", "6", "-", "o", "f", "z", "k", "N", "j", "h",
             "U", "/", "4", "i", "M", "/", "0", "u", "O", "e", "H", "X", "W", "A",
             "M", "J", "o", "I", "5", "B", "B", "K", "o", "z", "3", "m", "z", "f",
             "Q", "s", "R", "F", "I", "s", "P", "o", "=">>

RenderAlone(st, o, a) ==
    IF o = "ScriptTag"
    THEN { ScriptTag(st, a.path, a.attrs, order) :
             order \in OrdersOf(ScriptTagAttrMap(st, a.path, a.attrs)) }
    ELSE { LinkTag(st, a.path, a.attrs, order) :
             order \in OrdersOf(LinkTagAttrMap(st, a.path, a.attrs)) }

\* C12: a render call that fails returns the empty markup with its error;
\* no render call changes the facade; and the render call that follows a
\* failed one returns what it returns on the facade as it was before.
C12_FailedRenderNoEffect ==
    [][op' \in RenderOps =>
          /\ static' = static
          /\ err' # "nil" => ret' = <<>>
          /\ (op \in RenderOps /\ err # "nil") =>
                [tag |-> ret', err |-> err'] \in RenderAlone(static, op', args')]_vars

\* a ScriptTag call that failed on an odd attribute list, on a facade whose
\* manifest resolves the name
C12_Witness ==
    /\ op = "ScriptTag"
    /\ err = "attrs error"
    /\ ret = <<>>
    /\ static # Nil
    /\ static.mapping.kind = "StaticMap"
    /\ Get(static.mapping, args.path) # args.path

(***************************************************************************)
(* C13.                                                                    *)
(***************************************************************************)
\* the place of the last option of the given kind in an option list, 0 when
\* there is none
LastOption(options, kind) ==
    LET at == { i \in 1..Len(options) : options[i].option = kind }
    IN  IF at = {} THEN 0 ELSE CHOOSE i \in at : \A j \in at : j <= i

\* the option lists that hold the options of a list in another order, the
\* options of one kind keeping their order
Reorderings(options) ==
    LET n == Len(options)
        moved(p) == [i \in 1..n |-> options[p[i]]]
    IN  { moved(p) : p \in { q \in Permutations1[n] :
            \A i, j \in 1..n :
                (i < j /\ options[q[i]].option = options[q[j]].option) => q[i] < q[j] } }

\* C13: the mapping NewStatic builds, and the facade it returns, are those of
\* the loader of the last WithManifestLoader option (ioutil.ReadFile when
\* there is none), the flag of the last WithUseMinified option (false when
\* there is none) and the builder of the last WithMappingBuilder option (the
\* default builder, createMapping on that loader and flag, when there is none
\* or when it is nil); and moving options of different kinds past each other
\* changes nothing.
C13_LastOptionWins ==
    op = "NewStatic" =>
        LET options == args.options
            l == LastOption(options, "WithManifestLoader")
            m == LastOption(options, "WithUseMinified")
            b == LastOption(options, "WithMappingBuilder")
            load == IF l = 0 THEN ReadFile ELSE options[l].load
            minified == IF m = 0 THEN FALSE ELSE options[m].minified
            custom == b # 0 /\ options[b].builder # NilBuilder
            built == IF custom
                     THEN [mapper |-> options[b].builder.mapper,
                           err |-> options[b].builder.err]
                     ELSE createMapping(load, args.file, minified)
        IN  /\ err = built.err
            /\ err = "nil" =>
                 /\ static.manifestLoader = load
                 /\ static.useMinified = minified
                 /\ static.mappingBuilder =
                      (IF custom THEN options[b].builder ELSE DefaultBuilder)
                 /\ static.mapping = built.mapper
            /\ \A moved \in Reorderings(options) :
                 NewStatic(args.urlPrefix, ManifestPath, moved, args.file)
                    = [static |-> static, err |-> err]

\* NewStatic called with two loaders, the first failing and the second
\* returning the sample manifest: the facade holds the second and its mapping
C13_Witness ==
    /\ op = "NewStatic"
    /\ err = "nil"
    /\ Len(args.options) = 2
    /\ args.options[1] = WithManifestLoader(FailingLoader)
    /\ args.options[2] = WithManifestLoader(ContentLoader(ObjectJson(SampleObject)))
    /\ static.manifestLoader = args.options[2].load
    /\ static.mapping = StaticMap(SampleObject, FALSE)

(***************************************************************************)
(* C14.                                                                    *)
(***************************************************************************)
\* a call that is over returned what the same call returns alone on the facade
ReturnedAsAlone(f) ==
    IF f.kind = "Static"
    THEN f.tag = static.urlPrefix /\ f.err = "nil"
    ELSE [tag |-> f.tag, err |-> f.err]
            \in RenderAlone(static, f.kind, [path |-> f.path, attrs |-> f.attrs])

\* C14: under every interleaving of the statements of concurrent ScriptTag,
\* LinkTag and Static calls on one facade, no step changes the facade (its
\* configuration and its mapping); a call's defaultAttrMap holds the defaults
\* of its method until the call itself updates it; and every call returns
\* what it returns when executed alone.
C14_ConcurrentCallsAlone ==
    /\ [](\A c \in DOMAIN calls :
            /\ calls[c].pc \in {"slice", "update"} =>
                  calls[c].defaultAttrMap = DefaultsOf(calls[c].kind)
            /\ calls[c].pc = "done" => ReturnedAsAlone(calls[c]))
    /\ [][static' = static]_vars

\* two LinkTag calls in progress: the first has merged its override of type
\* into its defaultAttrMap, the second still holds the defaults
C14_Witness ==
    /\ DOMAIN calls = Callers
    /\ calls[1].kind = "LinkTag" /\ calls[1].pc = "url"
    /\ calls[1].defaultAttrMap[Type] = <<"x">>
    /\ calls[2].kind = "LinkTag" /\ calls[2].pc = "update"
    /\ calls[2].defaultAttrMap = LinkDefaults

(***************************************************************************)
(* C15.                                                                    *)
(***************************************************************************)
\* C15: createMapping with a nil loader returns no error and a mapping
\* without entries, in which Get(name) is the name for every name, the
\* minified flag being on or off.
C15_NilLoaderIdentity ==
    /\ (op = "createMapping" /\ args.load = NilLoader) =>
          /\ err = "nil"
          /\ mapping.kind = "StaticMap"
          /\ DOMAIN mapping.innerMap = {}
          /\ mapping.useMinified = args.useMinified
          /\ \A name \in Keys : Get(mapping, name) = name
    /\ (op = "Get" /\ DOMAIN mapping.innerMap = {}) => ret = args.name

\* createMapping called with a nil loader in minified mode
C15_Witness ==
    /\ op = "createMapping"
    /\ args.load = NilLoader
    /\ args.useMinified
    /\ err = "nil"
    /\ mapping.kind = "StaticMap"
    /\ mapping.useMinified

(***************************************************************************)
(* C16.                                                                    *)
(***************************************************************************)
\* C16: with the minified flag off, Get(name) is the string at the key name
\* if the manifest holds one there, and the name otherwise, whatever the
\* manifest holds at the minified key of the name.
C16_PlainLookupOnly ==
    (op = "Get" /\ ~mapping.useMinified) =>
        ret = (IF HasStringAt(mapping.innerMap, args.name)
               THEN mapping.innerMap[args.name].s
               ELSE args.name)

\* the flag off, a string at the minified key of the name, and another
\* result: the minified entry was not used
C16_Witness ==
    /\ op = "Get"
    /\ ~mapping.useMinified
    /\ HasStringAt(mapping.innerMap, MinifiedKeyOf(args.name))
    /\ ret # mapping.innerMap[MinifiedKeyOf(args.name)].s

====
